---------------------------- MODULE Spec2Model ----------------------------
(***************************************************************************)
(* A model of the batch processor of drhelius/oai-batch-rate:              *)
(*   src/batch_processor.py  BatchProcessor (queue, workers, lifecycle)    *)
(*   src/rate_limiters.py    FixedWindowRateLimiter (admission gate)       *)
(*                                                                         *)
(* Threads are the worker threads spawned by start() plus one client       *)
(* thread (the caller of add_task/start/stop/reset/set_rate_limits/        *)
(* get_progress).  Each worker has a program counter that follows the      *)
(* statements of _executor_worker; a block run under `with self.lock` or   *)
(* `with self.rate_limiter_lock` is one step.  The wall clock time.time()  *)
(* is the variable now, in whole seconds.  The QPS bookkeeping and the     *)
(* min/max token statistics are left out: no operation modelled here reads *)
(* them.                                                                   *)
(***************************************************************************)
EXTENDS Integers, Sequences, FiniteSets, TLC

(* ------------------------------ bounds -------------------------------- *)
\* thread slots: workers that can be alive at once (stragglers included)
MaxThreads == 2
\* add_task calls between two reset() calls
MaxTasks == 2
\* requeues counted in one run before a closed gate makes a worker wait
MaxRequeue == 2
\* last clock reading of the lifecycle specification
MaxTime == 1
\* tasks submitted before the run in limited mode
RunTasks == 3
\* tasks submitted in the fairness specification of the unlimited mode
MaxBatch == 3
\* requeues counted in the 15-task scenario
MaxSpin == 5
\* record_request calls between two resets of the limiter
MaxRecords == 3

(* ------------------------- program constants -------------------------- *)
\* tokens=None, the default argument of should_limit / record_request
None == -1
\* FixedWindowRateLimiter.__init__ defaults
RpmWindowSize == 10
TpmWindowSize == 60
\* cutoff of the limiter's reporting histories, _refresh_windows
HistoryCutoff == 60

Threads == 1..MaxThreads

VARIABLES
  \* BatchProcessor fields
  task_queue,        \* queue.Queue: sequence of task ids, head first
  total_tasks, completed_tasks, error_count, requeued_tasks,
  results,           \* results log: sequence of outcome records
  running,           \* self.running
  num_executors,     \* self.num_executors
  executors,         \* self.executors: the threads stop() joins
  rate_limit_mode,   \* "unlimited" | "limited"
  rate_limiter,      \* NoLimiter or a limiter record
  total_tokens, token_count,
  token_history,     \* deque of <<timestamp, tokens>>
  request_history,   \* deque of timestamps of successful requests
  \* worker threads
  pc,                \* pc[t]: position of thread t in _executor_worker
  held,              \* held[t]: the task tuple thread t dequeued, 0 if none
  outcome,           \* outcome[t]: what task_func returned or raised
  \* the client thread
  cpc,               \* position of the caller inside a multi-step operation
  progress,          \* the last snapshot get_progress() returned
  \* environment
  now,               \* time.time()
  \* history variables (read by properties only)
  requeue_events,    \* re-enqueues since the last start() / reset()
  admitted,          \* tasks admitted since the last request-window rollover
  since_stop,        \* stop() has returned and start() was not called since
  since_reset,       \* reset() has returned, no add_task / start() since
  record_log,        \* token arguments of the record_request calls made
                     \* since the limiter was constructed or last reset
  reset_at,          \* time of that construction or reset
  \* the two locks: the thread that owns each, NoThread when it is free
  lock,              \* self.lock
  rate_limiter_lock  \* self.rate_limiter_lock

procVars   == <<task_queue, total_tasks, completed_tasks, error_count,
                requeued_tasks, results, running, num_executors, executors>>
limVars    == <<rate_limit_mode, rate_limiter>>
metricVars == <<total_tokens, token_count, token_history, request_history>>
workerVars == <<pc, held, outcome>>
clientVars == <<cpc, progress>>
histVars   == <<requeue_events, admitted, since_stop, since_reset>>
limHist    == <<record_log, reset_at>>
lockVars   == <<lock, rate_limiter_lock>>
vars == <<procVars, limVars, metricVars, workerVars, clientVars, now, histVars,
          limHist, lockVars>>

(* ------------------------------- locks -------------------------------- *)
\* threading.Lock() as created in __init__: owned by no thread
NoThread == 0
\* the caller of the public methods, a thread that is not a worker
Client == MaxThreads + 1
\* the owner of a lock after thread t has left its `with` block
UnlockSkipped(t) == t
Unlock(t) == NoThread

(* --------------------------- error texts ------------------------------ *)
\* str(e) as the sequence of its words; "" is the empty sequence.
Lower(word) ==
  CASE word = "Rate Limit" -> "rate limit"
    [] word = "RATE LIMIT" -> "rate limit"
    [] OTHER -> word

\* "429" in error
Has429(error) == \E i \in 1..Len(error) : error[i] = "429"
\* a test that finds the words in every text
HasRateLimitAlways(error) == TRUE
\* "rate limit" in error.lower()
HasRateLimit(error) == \E i \in 1..Len(error) : Lower(error[i]) = "rate limit"

\* line 73: if "429" in error and "rate limit" in error.lower()
IsRateLimitErrorMissesCase(error) ==
  Has429(error) /\ \E i \in 1..Len(error) : error[i] = "rate limit"
IsRateLimitError(error) == Has429(error) /\ HasRateLimit(error)

\* Python truthiness of a str
NoError == <<"None">>   \* error = None (line 51); never a str(e)
Truthy(error) == error # NoError /\ Len(error) > 0
EmptyText == << >>
\* str(e) of the AttributeError raised by None.record_request (line 68)
NoneTypeText == <<"NoneType", "record_request">>
ErrorTexts == { EmptyText, <<"boom">>, <<"429">>, <<"Rate Limit">>,
                <<"429", "Rate Limit">>, <<"429", "rate limit">> }

\* what task_func(*args) does: returns a record with tokens, or raises
\* returned: task_result is not None; error: the local variable error
Success(tokens) == [returned |-> TRUE, tokens |-> tokens, error |-> NoError]
Failure(text)   == [returned |-> FALSE, tokens |-> 0, error |-> text]
NoOutcome == [returned |-> FALSE, tokens |-> 0, error |-> NoError]
\* 'tokens': None is what openai_task returns for a response without choices
TokenChoices == {None, 0, 2}
SuccessOutcomes == { Success(k) : k \in TokenChoices }
FailureOutcomes == { Failure(e) : e \in ErrorTexts }

(* ------------------------ FixedWindowRateLimiter ---------------------- *)
\* self.rate_limiter = None
NoLimiter ==
  [exists |-> FALSE, max_rpm |-> 0, max_tpm |-> 0,
   request_timestamps |-> << >>, token_usage |-> << >>,
   rpm_window_start_time |-> 0, rpm_window_requests |-> 0,
   tpm_window_start_time |-> 0, tpm_window_tokens |-> 0]

\* FixedWindowRateLimiter(max_rpm, max_tpm) constructed at time t
NewLimiter(max_rpm, max_tpm, t) ==
  [exists |-> TRUE, max_rpm |-> max_rpm, max_tpm |-> max_tpm,
   request_timestamps |-> << >>, token_usage |-> << >>,
   rpm_window_start_time |-> t, rpm_window_requests |-> 0,
   tpm_window_start_time |-> t, tpm_window_tokens |-> 0]

\* popleft while the head is older than the cutoff
RECURSIVE DropOlder(_, _)
DropOlder(stamps, cutoff) ==
  IF stamps # << >> /\ Head(stamps) < cutoff
    THEN DropOlder(Tail(stamps), cutoff) ELSE stamps

RECURSIVE DropOlderPairs(_, _)
DropOlderPairs(pairs, cutoff) ==
  IF pairs # << >> /\ Head(pairs)[1] < cutoff
    THEN DropOlderPairs(Tail(pairs), cutoff) ELSE pairs

RpmElapsed(l, t) == t - l.rpm_window_start_time >= RpmWindowSize
TpmElapsed(l, t) == t - l.tpm_window_start_time >= TpmWindowSize

\* _refresh_windows at time t
RefreshWindows(l, t) ==
  [l EXCEPT
     !.rpm_window_start_time = IF RpmElapsed(l, t) THEN t ELSE @,
     !.rpm_window_requests   = IF RpmElapsed(l, t) THEN 0 ELSE @,
     !.tpm_window_start_time = IF TpmElapsed(l, t) THEN t ELSE @,
     !.tpm_window_tokens     = IF TpmElapsed(l, t) THEN 0 ELSE @,
     !.request_timestamps    = DropOlder(@, t - HistoryCutoff),
     !.token_usage           = DropOlderPairs(@, t - HistoryCutoff)]

\* a test that takes the missing estimate for a number
TokensGivenAlways(tokens) == TRUE

\* Python truthiness of a token count: None and 0 are falsy
TokensGiven(tokens) == tokens # None /\ tokens # 0

\* the verdict when a cap of 0 is read as a quota of 0
LimitVerdictZeroCap(l, tokens) ==
  \/ l.rpm_window_requests * 60 >= l.max_rpm * RpmWindowSize
  \/ TokensGiven(tokens)
       /\ (l.tpm_window_tokens + tokens) * 60 > l.max_tpm * TpmWindowSize

\* the verdict of should_limit(tokens) on the refreshed limiter l;
\* the quotas max * window / 60 are floats, compared here multiplied by 60
LimitVerdict(l, tokens) ==
  \/ l.max_rpm > 0
       /\ l.rpm_window_requests * 60 >= l.max_rpm * RpmWindowSize
  \/ l.max_tpm > 0 /\ TokensGiven(tokens)
       /\ (l.tpm_window_tokens + tokens) * 60 > l.max_tpm * TpmWindowSize

\* should_limit(tokens) at time t: the verdict after the window rollover
ShouldLimit(l, tokens, t) == LimitVerdict(RefreshWindows(l, t), tokens)

\* the answer the gate of the worker would get at time t
GateShut(l, t) == l.exists /\ ShouldLimit(l, None, t)

\* a should_limit that books the request it admits
AfterShouldLimitCounts(l, tokens, t) ==
  LET r == RefreshWindows(l, t)
  IN IF LimitVerdict(r, tokens) THEN r
     ELSE [r EXCEPT !.rpm_window_requests = @ + 1]

\* the limiter after should_limit(tokens) at time t: lines 151-162 assign
\* nothing beyond what _refresh_windows assigns
AfterShouldLimit(l, tokens, t) == RefreshWindows(l, t)

\* the limiter after get_current_rates() at time t (lines 194-200; the
\* reported current_rpm / current_tpm are not modelled)
AfterGetCurrentRates(l, t) == RefreshWindows(l, t)

\* a record_request that counts the request and forgets its tokens
RecordRequestDropsTokens(l, tokens, t) ==
  [l EXCEPT
     !.request_timestamps = Append(@, t),
     !.rpm_window_requests = @ + 1]

\* record_request(tokens) at time t
RecordRequest(l, tokens, t) ==
  [l EXCEPT
     !.request_timestamps = Append(@, t),
     !.token_usage = IF TokensGiven(tokens) THEN Append(@, <<t, tokens>>) ELSE @,
     !.tpm_window_tokens = IF TokensGiven(tokens) THEN @ + tokens ELSE @,
     !.rpm_window_requests = @ + 1]

\* a reset that restarts the windows and keeps their counters
LimiterResetKeepsCounters(l, t) ==
  [l EXCEPT
     !.request_timestamps = << >>, !.token_usage = << >>,
     !.rpm_window_start_time = t, !.tpm_window_start_time = t]

\* FixedWindowRateLimiter.reset() at time t
LimiterReset(l, t) ==
  [l EXCEPT
     !.request_timestamps = << >>, !.token_usage = << >>,
     !.rpm_window_start_time = t, !.tpm_window_start_time = t,
     !.rpm_window_requests = 0, !.tpm_window_tokens = 0]

(* ------------------------- _executor_worker --------------------------- *)
\* a thread slot is free when no live thread occupies it
Gone == {"dead", "crashed"}

Goto(t, label) == pc' = [pc EXCEPT ![t] = label]

\* line 28: while self.running
LoopTestIgnored(flag) == "get"
LoopTest(flag) == IF flag THEN "get" ELSE "dead"

WLoop(t) ==
  /\ pc[t] = "loop"
  /\ Goto(t, LoopTest(running))
  /\ UNCHANGED <<procVars, limVars, metricVars, held, outcome, clientVars,
                 now, histVars>>
  /\ UNCHANGED <<limHist, lockVars>>

\* line 31: task_queue.get(timeout=0.5); queue.Empty leads back to line 28
WGet(t) ==
  /\ pc[t] = "get"
  /\ IF task_queue # << >>
       THEN /\ held' = [held EXCEPT ![t] = Head(task_queue)]
            /\ task_queue' = Tail(task_queue)
            /\ Goto(t, "gate")
       ELSE /\ Goto(t, "loop")
            /\ UNCHANGED <<held, task_queue>>
  /\ UNCHANGED <<total_tasks, completed_tasks, error_count, requeued_tasks,
                 results, running, num_executors, executors, limVars,
                 metricVars, outcome, clientVars, now, histVars>>
  /\ UNCHANGED <<limHist, lockVars>>

\* line 34: if self.rate_limit_mode == "limited" and self.rate_limiter
LimiterActive == rate_limit_mode = "limited" /\ rate_limiter.exists

WGate(t) ==
  /\ pc[t] = "gate"
  /\ Goto(t, IF LimiterActive THEN "limit" ELSE "exec")
  /\ UNCHANGED <<procVars, limVars, metricVars, held, outcome, clientVars,
                 now, histVars>>
  /\ UNCHANGED <<limHist, lockVars>>

\* lines 36-40: should_limit() under the limiter lock, no token estimate.
\* A limiter removed since line 34 raises AttributeError, which the worker
\* loop does not catch.  cap bounds the requeues the model counts: at the
\* cap a worker facing a closed gate waits instead of spinning.
WLimit(t, cap) ==
  /\ pc[t] = "limit"
  /\ IF ~rate_limiter.exists
       THEN /\ Goto(t, "crashed")
            /\ UNCHANGED <<rate_limiter, admitted>>
       ELSE LET limited == ShouldLimit(rate_limiter, None, now)
                rolled == RpmElapsed(rate_limiter, now)
            IN /\ limited => requeued_tasks < cap
               /\ rate_limiter' = AfterShouldLimit(rate_limiter, None, now)
               /\ admitted' = (IF rolled THEN 0 ELSE admitted)
                                + (IF limited THEN 0 ELSE 1)
               /\ Goto(t, IF limited THEN "requeue_put" ELSE "exec")
  /\ UNCHANGED <<procVars, rate_limit_mode, metricVars, held, outcome,
                 clientVars, now, requeue_events, since_stop, since_reset>>
  /\ rate_limiter_lock \in {NoThread, t} /\ rate_limiter_lock' = Unlock(t)
  /\ UNCHANGED <<limHist, lock>>

\* line 42: self.task_queue.put((task_func, args, kwargs))
RequeueAtHead(q, task) == <<task>> \o q
RequeueTwice(q, task) == Append(Append(q, task), task)
Requeue(q, task) == Append(q, task)

WRequeuePut(t) ==
  /\ pc[t] = "requeue_put"
  /\ task_queue' = Requeue(task_queue, held[t])
  /\ held' = [held EXCEPT ![t] = 0]
  /\ requeue_events' = requeue_events + 1
  /\ Goto(t, "requeue_inc")
  /\ UNCHANGED <<total_tasks, completed_tasks, error_count, requeued_tasks,
                 results, running, num_executors, executors, limVars,
                 metricVars, outcome, clientVars, now, admitted, since_stop,
                 since_reset>>
  /\ UNCHANGED <<limHist, lockVars>>

\* lines 43-46 and 77-78: with self.lock: self.requeued_tasks += 1
CountRequeue(n) == n + 1

WRequeueInc(t) ==
  /\ pc[t] \in {"requeue_inc", "err_inc"}
  /\ requeued_tasks' = CountRequeue(requeued_tasks)
  /\ outcome' = [outcome EXCEPT ![t] = NoOutcome]
  /\ Goto(t, "loop")
  /\ UNCHANGED <<task_queue, total_tasks, completed_tasks, error_count,
                 results, running, num_executors, executors, limVars,
                 metricVars, held, clientVars, now, histVars>>
  /\ lock \in {NoThread, t} /\ lock' = Unlock(t)
  /\ UNCHANGED <<limHist, rate_limiter_lock>>

\* lines 49-58: the query timestamp is recorded under the state lock
WExec(t) ==
  /\ pc[t] = "exec"
  /\ Goto(t, "task")
  /\ UNCHANGED <<procVars, limVars, metricVars, held, outcome, clientVars,
                 now, histVars>>
  /\ lock \in {NoThread, t} /\ lock' = Unlock(t)
  /\ UNCHANGED <<limHist, rate_limiter_lock>>

\* line 61: task_func(*args, **kwargs) returns or raises; o is what it does
WTask(t, o, cap) ==
  /\ pc[t] = "task"
  /\ IsRateLimitError(o.error) => requeued_tasks < cap
  /\ outcome' = [outcome EXCEPT ![t] = o]
  /\ Goto(t, IF o.returned THEN "rec_gate" ELSE "except")
  /\ UNCHANGED <<procVars, limVars, metricVars, held, clientVars, now,
                 histVars>>
  /\ UNCHANGED <<limHist, lockVars>>

\* line 64: if self.rate_limit_mode == "limited" and self.rate_limiter
WRecGate(t) ==
  /\ pc[t] = "rec_gate"
  /\ Goto(t, IF LimiterActive THEN "record" ELSE "store")
  /\ UNCHANGED <<procVars, limVars, metricVars, held, outcome, clientVars,
                 now, histVars>>
  /\ UNCHANGED <<limHist, lockVars>>

\* lines 65-68: record_request(tokens) under the limiter lock; a limiter
\* removed since line 64 raises AttributeError inside the try block
WRecord(t) ==
  /\ pc[t] = "record"
  /\ IF rate_limiter.exists
       THEN /\ rate_limiter' =
                 RecordRequest(rate_limiter, outcome[t].tokens, now)
            /\ Goto(t, "store")
            /\ UNCHANGED outcome
       ELSE /\ outcome' = [outcome EXCEPT ![t].error = NoneTypeText]
            /\ Goto(t, "except")
            /\ UNCHANGED rate_limiter
  /\ UNCHANGED <<procVars, rate_limit_mode, metricVars, held, clientVars,
                 now, histVars>>
  /\ rate_limiter_lock \in {NoThread, t} /\ rate_limiter_lock' = Unlock(t)
  /\ record_log' = IF rate_limiter.exists
                     THEN Append(record_log, outcome[t].tokens)
                     ELSE record_log
  /\ UNCHANGED <<reset_at, lock>>

\* lines 70-78: error = str(e); a rate-limit error puts the task back
WExcept(t) ==
  /\ pc[t] = "except"
  /\ IF IsRateLimitError(outcome[t].error)
       THEN /\ task_queue' = Requeue(task_queue, held[t])
            /\ held' = [held EXCEPT ![t] = 0]
            /\ requeue_events' = requeue_events + 1
            /\ Goto(t, "err_inc")
       ELSE /\ Goto(t, "store")
            /\ UNCHANGED <<task_queue, held, requeue_events>>
  /\ UNCHANGED <<total_tasks, completed_tasks, error_count, requeued_tasks,
                 results, running, num_executors, executors, limVars,
                 metricVars, outcome, clientVars, now, admitted, since_stop,
                 since_reset>>
  /\ UNCHANGED <<limHist, lockVars>>

\* line 90: 'status': 'error' if error else 'success'
StatusOf(error) == IF Truthy(error) THEN "error" ELSE "success"

\* lines 85-91: the outcome appended to the results log
Entry(task, o) ==
  [task |-> task, returned |-> o.returned, tokens |-> o.tokens,
   error |-> o.error, status |-> StatusOf(o.error)]

\* lines 93-94: if error: self.error_count += 1
CountError(n, error) == IF Truthy(error) THEN n + 1 ELSE n

\* line 100: if not error and task_result and 'tokens' in task_result
HasTokens(o) == ~Truthy(o.error) /\ o.returned

\* line 102: self.total_tokens += tokens raises TypeError when the result
\* carries 'tokens': None; nothing catches it and the thread ends
SumRaises(o) == HasTokens(o) /\ o.tokens = None
Summed(o) == HasTokens(o) /\ o.tokens # None

\* lines 83-110: with self.lock: store the outcome of a task not requeued;
\* the statements before line 102 have taken effect when it raises
WStore(t) ==
  /\ pc[t] = "store"
  /\ LET o == outcome[t] IN
       /\ results' = Append(results, Entry(held[t], o))
       /\ completed_tasks' = completed_tasks + 1
       /\ error_count' = CountError(error_count, o.error)
       /\ request_history' = IF Truthy(o.error) THEN request_history
                             ELSE Append(request_history, now)
       /\ total_tokens' = IF Summed(o) THEN total_tokens + o.tokens
                          ELSE total_tokens
       /\ token_count' = IF Summed(o) THEN token_count + 1 ELSE token_count
       /\ token_history' = IF Summed(o)
                             THEN Append(token_history, <<now, o.tokens>>)
                             ELSE token_history
       /\ Goto(t, IF SumRaises(o) THEN "crashed" ELSE "loop")
  /\ held' = [held EXCEPT ![t] = 0]
  /\ outcome' = [outcome EXCEPT ![t] = NoOutcome]
  /\ UNCHANGED <<task_queue, total_tasks, requeued_tasks, running,
                 num_executors, executors, limVars, clientVars, now,
                 histVars>>
  /\ lock \in {NoThread, t} /\ lock' = Unlock(t)
  /\ UNCHANGED <<limHist, rate_limiter_lock>>

\* A `with` block of the worker is entered and left in one step above, or
\* entered here and left by the step of its statements: the thread then
\* owns the lock in between.
\* lines 43, 56, 77, 84: with self.lock
LockLabels == {"requeue_inc", "err_inc", "exec", "store"}
\* lines 36, 67: with self.rate_limiter_lock
LimiterLockLabels == {"limit", "record"}

WTakeLock(t) ==
  /\ pc[t] \in LockLabels
  /\ lock = NoThread
  /\ lock' = t
  /\ UNCHANGED <<procVars, limVars, metricVars, workerVars, clientVars, now,
                 histVars, limHist, rate_limiter_lock>>

WTakeLimiterLock(t) ==
  /\ pc[t] \in LimiterLockLabels
  /\ rate_limiter_lock = NoThread
  /\ rate_limiter_lock' = t
  /\ UNCHANGED <<procVars, limVars, metricVars, workerVars, clientVars, now,
                 histVars, limHist, lock>>

\* time.time() moves on by d seconds, up to the horizon of the run
Tick(d, horizon) ==
  /\ now + d <= horizon
  /\ now' = now + d
  /\ UNCHANGED <<procVars, limVars, metricVars, workerVars, clientVars,
                 histVars>>
  /\ UNCHANGED <<limHist, lockVars>>

(* ------------------------- the client thread -------------------------- *)
\* the value held by the caller when its last call was not get_progress()
NoSnapshot ==
  [taken |-> FALSE, raised |-> FALSE, completed |-> 0, total |-> 0,
   queue_size |-> 0, results |-> << >>, error_count |-> 0,
   requeued_tasks |-> 0, total_tokens |-> 0]

\* lines 20-22: add_task puts the task tuple on the queue ...
AddTaskPut ==
  /\ cpc = "idle"
  /\ total_tasks < MaxTasks
  /\ task_queue' = Append(task_queue, total_tasks + 1)
  /\ cpc' = "add_task"
  /\ progress' = NoSnapshot
  /\ since_reset' = FALSE
  /\ UNCHANGED <<total_tasks, completed_tasks, error_count, requeued_tasks,
                 results, running, num_executors, executors, limVars,
                 metricVars, workerVars, now, requeue_events, admitted,
                 since_stop>>
  /\ UNCHANGED <<limHist, lockVars>>

\* ... lines 23-24: and then counts it under the state lock
AddTaskInc ==
  /\ cpc = "add_task"
  /\ lock = NoThread
  /\ total_tasks' = total_tasks + 1
  /\ cpc' = "idle"
  /\ UNCHANGED <<task_queue, completed_tasks, error_count, requeued_tasks,
                 results, running, num_executors, executors, limVars,
                 metricVars, workerVars, progress, now, histVars>>
  /\ UNCHANGED <<limHist, lockVars>>

FreeSlots == { t \in Threads : pc[t] \in Gone }
\* the slots of the threads start() creates: the first num_executors free
Spawned ==
  { t \in FreeSlots :
      Cardinality({ u \in FreeSlots : u < t }) < num_executors }

\* line 119 of start(): self.results = []
ResultsKept(log) == log
ResultsAfterStart(log) == << >>

\* lines 117-119 of start(): the flag, the thread list, the results log
StartBegin ==
  /\ cpc = "idle"
  /\ Cardinality(FreeSlots) >= num_executors
  /\ running' = TRUE
  /\ executors' = {}
  /\ results' = ResultsAfterStart(results)
  /\ cpc' = "start"
  /\ progress' = NoSnapshot
  /\ since_stop' = FALSE
  /\ since_reset' = FALSE
  /\ UNCHANGED <<task_queue, total_tasks, completed_tasks, error_count,
                 requeued_tasks, num_executors, limVars, metricVars,
                 workerVars, now, requeue_events, admitted>>
  /\ UNCHANGED <<limHist, lockVars>>

\* lines 120-136 of start(): the counters, the limiter, the threads
StartFinish ==
  /\ cpc = "start"
  /\ completed_tasks' = 0
  /\ error_count' = 0
  /\ requeued_tasks' = 0
  /\ requeue_events' = 0
  /\ IF rate_limiter.exists
       THEN /\ rate_limiter_lock = NoThread
            /\ rate_limiter' = LimiterReset(rate_limiter, now)
            /\ admitted' = 0
            /\ record_log' = << >> /\ reset_at' = now
       ELSE UNCHANGED <<rate_limiter, admitted, limHist>>
  /\ executors' = Spawned
  /\ pc' = [t \in Threads |-> IF t \in Spawned THEN "loop" ELSE pc[t]]
  /\ cpc' = "idle"
  /\ UNCHANGED <<task_queue, total_tasks, results, running, num_executors,
                 rate_limit_mode, metricVars, held, outcome, progress, now,
                 since_stop, since_reset>>
  /\ UNCHANGED lockVars

\* what thread.join(1.0) waits for: the thread has ended, or the grace
\* period runs out, which only a thread inside the task function outlasts
\* (the dequeue waits 0.5 s at most)
JoinDone == \A t \in executors : pc[t] \in Gone \cup {"task"}

\* line 140 of stop(): self.running = False
StopBegin ==
  /\ cpc = "idle"
  /\ running' = FALSE
  /\ cpc' = "stop_join"
  /\ progress' = NoSnapshot
  /\ UNCHANGED <<task_queue, total_tasks, completed_tasks, error_count,
                 requeued_tasks, results, num_executors, executors, limVars,
                 metricVars, workerVars, now, histVars>>
  /\ UNCHANGED <<limHist, lockVars>>

\* lines 141-143 of stop(): the joins are over and stop() returns
StopReturn ==
  /\ cpc = "stop_join"
  /\ JoinDone
  /\ cpc' = "idle"
  /\ since_stop' = TRUE
  /\ UNCHANGED <<procVars, limVars, metricVars, workerVars, progress, now,
                 requeue_events, admitted, since_reset>>
  /\ UNCHANGED <<limHist, lockVars>>

\* line 147 of reset(): self.stop() flips the flag ...
ResetBegin ==
  /\ cpc = "idle"
  /\ running' = FALSE
  /\ cpc' = "reset_join"
  /\ progress' = NoSnapshot
  /\ UNCHANGED <<task_queue, total_tasks, completed_tasks, error_count,
                 requeued_tasks, results, num_executors, executors, limVars,
                 metricVars, workerVars, now, histVars>>
  /\ UNCHANGED <<limHist, lockVars>>

\* ... and lines 141-173: after the joins reset(n) clears the state
ResetBody(n) ==
  /\ cpc = "reset_join"
  /\ JoinDone
  /\ task_queue' = << >>
  /\ num_executors' = n
  /\ executors' = {}
  /\ results' = << >>
  /\ completed_tasks' = 0
  /\ total_tasks' = 0
  /\ error_count' = 0
  /\ requeued_tasks' = 0
  /\ total_tokens' = 0
  /\ token_count' = 0
  /\ token_history' = << >>
  /\ request_history' = << >>
  /\ running' = FALSE
  /\ IF rate_limiter.exists
       THEN /\ rate_limiter_lock = NoThread
            /\ rate_limiter' = LimiterReset(rate_limiter, now)
            /\ admitted' = 0
            /\ record_log' = << >> /\ reset_at' = now
       ELSE UNCHANGED <<rate_limiter, admitted, limHist>>
  /\ cpc' = "idle"
  /\ requeue_events' = 0
  /\ since_stop' = TRUE
  /\ since_reset' = TRUE
  /\ UNCHANGED <<rate_limit_mode, workerVars, progress, now>>
  /\ UNCHANGED lockVars

\* lines 175-188: set_rate_limits(mode, max_rpm, max_tpm)
SetRateLimits(mode, max_rpm, max_tpm) ==
  /\ cpc = "idle"
  /\ rate_limiter_lock = NoThread
  /\ rate_limit_mode' = mode
  /\ IF mode = "limited"
       THEN /\ rate_limiter' =
                 IF rate_limiter.exists
                   THEN LimiterReset([rate_limiter EXCEPT
                                        !.max_rpm = max_rpm,
                                        !.max_tpm = max_tpm], now)
                   ELSE NewLimiter(max_rpm, max_tpm, now)
            /\ admitted' = 0
            /\ record_log' = << >> /\ reset_at' = now
       ELSE /\ rate_limiter' = NoLimiter
            /\ UNCHANGED <<admitted, limHist>>
  /\ progress' = NoSnapshot
  /\ UNCHANGED <<procVars, metricVars, workerVars, cpc, now, requeue_events,
                 since_stop, since_reset>>
  /\ UNCHANGED lockVars

\* reset(), lines 163-164: the windows of the reported rates
TpmWindowSeconds == 60
RpmWindowSeconds == 10

\* lines 190-215, _calculate_tpm: the division by window_duration fails
\* when the oldest entry kept carries the current time.  The clock of the
\* model counts whole seconds: two readings within the same second may be
\* the same float or differ by a fraction, so that the division may fail
\* or succeed.
TpmDividesByZero(history, t) ==
  LET kept == DropOlderPairs(history, t - TpmWindowSeconds)
  IN kept # << >> /\ t - Head(kept)[1] = 0

\* lines 262-292: what get_progress() computes inside the state lock; the
\* limiter's get_current_rates() refreshes its windows, the rate
\* calculations prune the histories
ProgressBody ==
  /\ IF LimiterActive
       THEN /\ rate_limiter' = AfterGetCurrentRates(rate_limiter, now)
            /\ admitted' = IF RpmElapsed(rate_limiter, now) THEN 0
                           ELSE admitted
       ELSE UNCHANGED <<rate_limiter, admitted>>
  /\ token_history' = DropOlderPairs(token_history, now - TpmWindowSeconds)
  /\ \/ /\ TpmDividesByZero(token_history, now)
        /\ progress' = [NoSnapshot EXCEPT !.raised = TRUE]
        /\ UNCHANGED request_history
     \/ /\ progress' =
             [taken |-> TRUE, raised |-> FALSE,
              completed |-> completed_tasks, total |-> total_tasks,
              queue_size |-> Len(task_queue), results |-> results,
              error_count |-> error_count,
              requeued_tasks |-> requeued_tasks,
              total_tokens |-> total_tokens]
        /\ request_history' =
             DropOlder(request_history, now - RpmWindowSeconds)
  /\ UNCHANGED <<procVars, rate_limit_mode, total_tokens, token_count,
                 workerVars, now, requeue_events, since_stop, since_reset,
                 limHist>>

\* lines 259-292 when the test of line 272 fails: get_progress() is one
\* block under the state lock
GetProgress ==
  /\ cpc = "idle"
  /\ ~LimiterActive
  /\ lock = NoThread
  /\ ProgressBody
  /\ UNCHANGED <<cpc, lockVars>>

\* lines 261-272 with an active limiter: the caller takes the state lock ...
ProgressLock ==
  /\ cpc = "idle"
  /\ LimiterActive
  /\ lock = NoThread
  /\ lock' = Client
  /\ cpc' = "progress_locked"
  /\ progress' = NoSnapshot
  /\ UNCHANGED <<procVars, limVars, metricVars, workerVars, now, histVars,
                 limHist, rate_limiter_lock>>

\* ... line 273: takes the limiter lock inside it ...
ProgressRatesLock ==
  /\ cpc = "progress_locked"
  /\ rate_limiter_lock = NoThread
  /\ rate_limiter_lock' = Client
  /\ cpc' = "progress_rates"
  /\ UNCHANGED <<procVars, limVars, metricVars, workerVars, progress, now,
                 histVars, limHist, lock>>

\* ... and lines 274-292: reads the rates, leaves both blocks and returns
ProgressReturn ==
  /\ cpc = "progress_rates"
  /\ ProgressBody
  /\ cpc' = "idle"
  /\ rate_limiter_lock' = Unlock(Client)
  /\ lock' = Unlock(Client)

\* lines 294-297, remaining_tasks(): with self.lock: return the difference
RemainingLock ==
  /\ cpc = "idle"
  /\ lock = NoThread
  /\ lock' = Client
  /\ cpc' = "remaining"
  /\ UNCHANGED <<procVars, limVars, metricVars, workerVars, progress, now,
                 histVars, limHist, rate_limiter_lock>>

RemainingReturn ==
  /\ cpc = "remaining"
  /\ cpc' = "idle"
  /\ lock' = Unlock(Client)
  /\ UNCHANGED <<procVars, limVars, metricVars, workerVars, progress, now,
                 histVars, limHist, rate_limiter_lock>>

(* ------------------- the lifecycle specification ---------------------- *)
\* BatchProcessor(num_executors=n): unlimited mode, no limiter, and the
\* state reset() leaves (lines 9-18)
InitProcessor(n) ==
  /\ task_queue = << >>
  /\ total_tasks = 0 /\ completed_tasks = 0
  /\ error_count = 0 /\ requeued_tasks = 0
  /\ results = << >>
  /\ running = FALSE
  /\ num_executors = n
  /\ executors = {}
  /\ rate_limit_mode = "unlimited"
  /\ rate_limiter = NoLimiter
  /\ total_tokens = 0 /\ token_count = 0
  /\ token_history = << >> /\ request_history = << >>
  /\ pc = [t \in Threads |-> "dead"]
  /\ held = [t \in Threads |-> 0]
  /\ outcome = [t \in Threads |-> NoOutcome]
  /\ cpc = "idle"
  /\ progress = NoSnapshot
  /\ now = 0
  /\ requeue_events = 0 /\ admitted = 0
  /\ since_stop = TRUE /\ since_reset = TRUE
  /\ record_log = << >> /\ reset_at = 0
  /\ lock = NoThread /\ rate_limiter_lock = NoThread

Init == InitProcessor(1)

\* the outcomes of a task in the lifecycle specification
LifeOutcomes == { Success(2), Failure(<<"429", "Rate Limit">>) }

\* the caller starts a run only after stop() or reset() has returned, as
\* start_processing of src/app.py does
StartAfterStop == since_stop /\ StartBegin

\* Any sequence of client calls against workers in unlimited mode.
Next ==
  \/ AddTaskPut \/ AddTaskInc
  \/ StartAfterStop \/ StartFinish
  \/ StopBegin \/ StopReturn
  \/ ResetBegin \/ \E n \in 1..MaxThreads : ResetBody(n)
  \/ GetProgress
  \/ \E t \in Threads :
       \/ WLoop(t) \/ WGet(t) \/ WGate(t)
       \/ WRequeueInc(t) \/ WExec(t)
       \/ \E o \in LifeOutcomes : WTask(t, o, MaxRequeue)
       \/ WRecGate(t) \/ WExcept(t) \/ WStore(t)

Spec == Init /\ [][Next]_vars

\* The same calls without reset(): add_task, start, stop and the workers.
NextCalls ==
  \/ AddTaskPut \/ AddTaskInc
  \/ StartAfterStop \/ StartFinish
  \/ StopBegin \/ StopReturn
  \/ \E t \in Threads :
       \/ WLoop(t) \/ WGet(t) \/ WGate(t)
       \/ WRequeueInc(t) \/ WExec(t)
       \/ \E o \in LifeOutcomes : WTask(t, o, MaxRequeue)
       \/ WRecGate(t) \/ WExcept(t) \/ WStore(t)

SpecCalls == Init /\ [][NextCalls]_vars

(* ---------------------- one run in limited mode ----------------------- *)
\* reset(n); set_rate_limits("limited", 6, 0); add_task x RunTasks.
\* max_rpm = 6 with the 10 s window is a quota of one request per window.
InitRun ==
  /\ task_queue = [i \in 1..RunTasks |-> i]
  /\ total_tasks = RunTasks /\ completed_tasks = 0
  /\ error_count = 0 /\ requeued_tasks = 0
  /\ results = << >>
  /\ running = FALSE
  /\ num_executors = MaxThreads
  /\ executors = {}
  /\ rate_limit_mode = "limited"
  /\ rate_limiter = NewLimiter(6, 0, 0)
  /\ total_tokens = 0 /\ token_count = 0
  /\ token_history = << >> /\ request_history = << >>
  /\ pc = [t \in Threads |-> "dead"]
  /\ held = [t \in Threads |-> 0]
  /\ outcome = [t \in Threads |-> NoOutcome]
  /\ cpc = "idle"
  /\ progress = NoSnapshot
  /\ now = 0
  /\ requeue_events = 0 /\ admitted = 0
  /\ since_stop = TRUE /\ since_reset = FALSE
  /\ record_log = << >> /\ reset_at = 0
  /\ lock = NoThread /\ rate_limiter_lock = NoThread

RunOutcomes == SuccessOutcomes \cup FailureOutcomes

\* start() is called once: the run lasts from it to the end of the behavior
NextRun ==
  \/ StartAfterStop \/ StartFinish
  \/ \E t \in Threads :
       \/ WLoop(t) \/ WGet(t) \/ WGate(t) \/ WLimit(t, MaxRequeue)
       \/ WRequeuePut(t) \/ WRequeueInc(t) \/ WExec(t)
       \/ \E o \in RunOutcomes : WTask(t, o, MaxRequeue)
       \/ WRecGate(t) \/ WRecord(t) \/ WExcept(t) \/ WStore(t)
  \/ Tick(RpmWindowSize, RpmWindowSize * MaxTime)

SpecRun == InitRun /\ [][NextRun]_vars

(* --------------- unlimited mode: submit, start, drain ----------------- *)
\* add_task any number of times, then start() once; every task succeeds
InitFair == \E n \in 1..MaxThreads : InitProcessor(n)

FairAddTaskPut ==
  /\ since_stop
  /\ total_tasks < MaxBatch
  /\ task_queue' = Append(task_queue, total_tasks + 1)
  /\ cpc = "idle"
  /\ cpc' = "add_task"
  /\ UNCHANGED <<total_tasks, completed_tasks, error_count, requeued_tasks,
                 results, running, num_executors, executors, limVars,
                 metricVars, workerVars, progress, now, histVars>>
  /\ UNCHANGED <<limHist, lockVars>>

WorkerFair(t) ==
  \/ WLoop(t) \/ WGet(t) \/ WGate(t) \/ WExec(t)
  \/ \E o \in SuccessOutcomes : WTask(t, o, 0)
  \/ WRecGate(t) \/ WStore(t)

NextFair ==
  \/ FairAddTaskPut \/ AddTaskInc
  \/ StartAfterStop \/ StartFinish
  \/ \E t \in Threads : WorkerFair(t)

\* a started thread is scheduled again and again, and the caller of start()
\* runs it to its end
SpecFair ==
  /\ InitFair
  /\ [][NextFair]_vars
  /\ WF_vars(StartFinish)
  /\ \A t \in Threads : WF_vars(WorkerFair(t))

(* ------------- the scenario max_rpm = 60, fifteen tasks --------------- *)
\* reset(MaxThreads); set_rate_limits("limited", 60, 0); add_task(f, 1) x 15:
\* fifteen submissions of the same task tuple
InitScenario ==
  /\ task_queue = [i \in 1..15 |-> 1]
  /\ total_tasks = 15 /\ completed_tasks = 0
  /\ error_count = 0 /\ requeued_tasks = 0
  /\ results = << >>
  /\ running = FALSE
  /\ num_executors = MaxThreads
  /\ executors = {}
  /\ rate_limit_mode = "limited"
  /\ rate_limiter = NewLimiter(60, 0, 0)
  /\ total_tokens = 0 /\ token_count = 0
  /\ token_history = << >> /\ request_history = << >>
  /\ pc = [t \in Threads |-> "dead"]
  /\ held = [t \in Threads |-> 0]
  /\ outcome = [t \in Threads |-> NoOutcome]
  /\ cpc = "idle"
  /\ progress = NoSnapshot
  /\ now = 0
  /\ requeue_events = 0 /\ admitted = 0
  /\ since_stop = TRUE /\ since_reset = FALSE
  /\ record_log = << >> /\ reset_at = 0
  /\ lock = NoThread /\ rate_limiter_lock = NoThread

\* a zero-latency task: the clock does not move while a task function runs
NoTaskRunning == \A t \in Threads : pc[t] # "task"

NextScenario ==
  \/ StartBegin \/ StartFinish
  \/ \E t \in Threads :
       \/ WLoop(t) \/ WGet(t) \/ WGate(t) \/ WLimit(t, MaxSpin)
       \/ WRequeuePut(t) \/ WRequeueInc(t) \/ WExec(t)
       \/ WTask(t, Success(2), MaxSpin)
       \/ WRecGate(t) \/ WRecord(t) \/ WStore(t)
  \/ (NoTaskRunning /\ Tick(RpmWindowSize, RpmWindowSize))

SpecScenario == InitScenario /\ [][NextScenario]_vars

(* ------------- unlimited mode: one start(), then stop() --------------- *)
\* BatchProcessor(n); start(); add_task at any time; stop().  start() is
\* called once, on the freshly constructed processor.
StartAfterReset == since_reset /\ StartBegin

StopOutcomes ==
  { Success(2), Failure(<<"boom">>), Failure(<<"429", "Rate Limit">>) }

WorkerStop(t) ==
  \/ WLoop(t) \/ WGet(t) \/ WGate(t) \/ WRequeueInc(t) \/ WExec(t)
  \/ \E o \in StopOutcomes : WTask(t, o, MaxRequeue)
  \/ WRecGate(t) \/ WExcept(t) \/ WStore(t)

NextStop ==
  \/ StartAfterReset \/ StartFinish
  \/ AddTaskPut \/ AddTaskInc
  \/ StopBegin \/ StopReturn
  \/ \E t \in Threads : WorkerStop(t)

\* every thread is scheduled again and again, and the task function returns
SpecStop ==
  /\ InitFair
  /\ [][NextStop]_vars
  /\ \A t \in Threads : WF_vars(WorkerStop(t))

(* ------------- limited mode with a token cap only -------------------- *)
\* set_rate_limits('limited', max_rpm=0, max_tpm=4), RunTasks tasks, start()
InitTokens ==
  /\ task_queue = [i \in 1..RunTasks |-> i]
  /\ total_tasks = RunTasks /\ completed_tasks = 0
  /\ error_count = 0 /\ requeued_tasks = 0
  /\ results = << >>
  /\ running = FALSE
  /\ num_executors = MaxThreads
  /\ executors = {}
  /\ rate_limit_mode = "limited"
  /\ rate_limiter = NewLimiter(0, 4, 0)
  /\ total_tokens = 0 /\ token_count = 0
  /\ token_history = << >> /\ request_history = << >>
  /\ pc = [t \in Threads |-> "dead"]
  /\ held = [t \in Threads |-> 0]
  /\ outcome = [t \in Threads |-> NoOutcome]
  /\ cpc = "idle"
  /\ progress = NoSnapshot
  /\ now = 0
  /\ requeue_events = 0 /\ admitted = 0
  /\ since_stop = TRUE /\ since_reset = FALSE
  /\ record_log = << >> /\ reset_at = 0
  /\ lock = NoThread /\ rate_limiter_lock = NoThread

\* tasks use 2 or 6 tokens, or are rejected upstream
TokenOutcomes ==
  { Success(2), Success(6), Failure(<<"429", "Rate Limit">>) }

\* the worker loop; line 42 is left to the specifications in which the
\* gate closes
NextTokens ==
  \/ StartAfterStop \/ StartFinish
  \/ \E t \in Threads :
       \/ WLoop(t) \/ WGet(t) \/ WGate(t) \/ WLimit(t, MaxRequeue)
       \/ WRequeueInc(t) \/ WExec(t)
       \/ \E o \in TokenOutcomes : WTask(t, o, MaxRequeue)
       \/ WRecGate(t) \/ WRecord(t) \/ WExcept(t) \/ WStore(t)
  \/ Tick(RpmWindowSize, RpmWindowSize * MaxTime)

SpecTokens == InitTokens /\ [][NextTokens]_vars

(* ------------- limited mode, fair workers, time moving on ------------- *)
\* RunTasks tasks, max_rpm = 6 (one request per window), start(); every
\* execution returns a result
WorkerGate(t) ==
  \/ WLoop(t) \/ WGet(t) \/ WGate(t) \/ WLimit(t, MaxRequeue)
  \/ WRequeuePut(t) \/ WRequeueInc(t) \/ WExec(t)
  \/ \E o \in SuccessOutcomes : WTask(t, o, MaxRequeue)
  \/ WRecGate(t) \/ WRecord(t) \/ WStore(t)

\* the clock is read again once a window has gone by; the windows counted
\* are those at whose end the gate is shut: each needs a request recorded
\* since the window before, so RunTasks windows are never used up
TickShut ==
  /\ GateShut(rate_limiter, now)
  /\ Tick(RpmWindowSize, RpmWindowSize * RunTasks)

NextGate ==
  \/ StartAfterStop \/ StartFinish
  \/ \E t \in Threads : WorkerGate(t)
  \/ TickShut

\* start() runs to its end, every thread is scheduled again and again,
\* time keeps advancing
SpecGate ==
  /\ InitRun
  /\ [][NextGate]_vars
  /\ WF_vars(StartFinish)
  /\ \A t \in Threads : WF_vars(WorkerGate(t))
  /\ WF_vars(TickShut)

(* ------------- limited mode, whole and fractional quotas -------------- *)
\* set_rate_limits('limited', max_rpm, 0) with a quota of 1 or of 1.5
\* requests per window, RunTasks tasks, start() with MaxThreads workers
QuotaCaps == {6, 9}

InitQuota ==
  /\ task_queue = [i \in 1..RunTasks |-> i]
  /\ total_tasks = RunTasks /\ completed_tasks = 0
  /\ error_count = 0 /\ requeued_tasks = 0
  /\ results = << >>
  /\ running = FALSE
  /\ num_executors = MaxThreads
  /\ executors = {}
  /\ rate_limit_mode = "limited"
  /\ \E max_rpm \in QuotaCaps : rate_limiter = NewLimiter(max_rpm, 0, 0)
  /\ total_tokens = 0 /\ token_count = 0
  /\ token_history = << >> /\ request_history = << >>
  /\ pc = [t \in Threads |-> "dead"]
  /\ held = [t \in Threads |-> 0]
  /\ outcome = [t \in Threads |-> NoOutcome]
  /\ cpc = "idle"
  /\ progress = NoSnapshot
  /\ now = 0
  /\ requeue_events = 0 /\ admitted = 0
  /\ since_stop = TRUE /\ since_reset = FALSE
  /\ record_log = << >> /\ reset_at = 0
  /\ lock = NoThread /\ rate_limiter_lock = NoThread

\* every execution returns a result with 2 tokens
NextQuota ==
  \/ StartAfterStop \/ StartFinish
  \/ \E t \in Threads :
       \/ WLoop(t) \/ WGet(t) \/ WGate(t) \/ WLimit(t, MaxRequeue)
       \/ WRequeuePut(t) \/ WRequeueInc(t) \/ WExec(t)
       \/ WTask(t, Success(2), MaxRequeue)
       \/ WRecGate(t) \/ WRecord(t) \/ WStore(t)
  \/ Tick(RpmWindowSize, RpmWindowSize * MaxTime)

SpecQuota == InitQuota /\ [][NextQuota]_vars

(* ------------------- the limiter and its callers ---------------------- *)
\* The methods of FixedWindowRateLimiter called in any order, as the workers
\* and get_progress() call them, with set_rate_limits() in between.
\* caps tried: none, half a request and one request per 10 s window, four
\* tokens per minute
RpmCaps == {0, 3, 6}
TpmCaps == {0, 4}
\* token estimates handed to should_limit
Estimates == {None, 0, 2, 6}

\* rate_limiter.should_limit(tokens)
CallShouldLimit(tokens) ==
  /\ rate_limiter.exists
  /\ rate_limiter_lock = NoThread
  /\ rate_limiter' = AfterShouldLimit(rate_limiter, tokens, now)
  /\ admitted' = IF RpmElapsed(rate_limiter, now) THEN 0 ELSE admitted
  /\ UNCHANGED <<procVars, rate_limit_mode, metricVars, workerVars,
                 clientVars, now, requeue_events, since_stop, since_reset,
                 limHist, lockVars>>

\* rate_limiter.get_current_rates()
CallGetCurrentRates ==
  /\ rate_limiter.exists
  /\ rate_limiter_lock = NoThread
  /\ rate_limiter' = AfterGetCurrentRates(rate_limiter, now)
  /\ admitted' = IF RpmElapsed(rate_limiter, now) THEN 0 ELSE admitted
  /\ UNCHANGED <<procVars, rate_limit_mode, metricVars, workerVars,
                 clientVars, now, requeue_events, since_stop, since_reset,
                 limHist, lockVars>>

\* rate_limiter.record_request(tokens)
CallRecordRequest(tokens) ==
  /\ rate_limiter.exists
  /\ rate_limiter_lock = NoThread
  /\ Len(record_log) < MaxRecords
  /\ rate_limiter' = RecordRequest(rate_limiter, tokens, now)
  /\ record_log' = Append(record_log, tokens)
  /\ UNCHANGED <<procVars, rate_limit_mode, metricVars, workerVars,
                 clientVars, now, histVars, reset_at, lockVars>>

InitLimiter == InitProcessor(1)

NextLimiter ==
  \/ \E mode \in {"limited", "unlimited"}, r \in RpmCaps, p \in TpmCaps :
       SetRateLimits(mode, r, p)
  \/ \E tokens \in Estimates : CallShouldLimit(tokens)
  \/ CallGetCurrentRates
  \/ \E tokens \in TokenChoices : CallRecordRequest(tokens)
  \/ Tick(RpmWindowSize, TpmWindowSize + RpmWindowSize)

SpecLimiter == InitLimiter /\ [][NextLimiter]_vars

(* ------------- limited mode: runs, stops and restarts ----------------- *)
\* reset(1); set_rate_limits("limited", 6, 4); add_task x MaxTasks
InitLimited ==
  /\ task_queue = [i \in 1..MaxTasks |-> i]
  /\ total_tasks = MaxTasks /\ completed_tasks = 0
  /\ error_count = 0 /\ requeued_tasks = 0
  /\ results = << >>
  /\ running = FALSE
  /\ num_executors = 1
  /\ executors = {}
  /\ rate_limit_mode = "limited"
  /\ rate_limiter = NewLimiter(6, 4, 0)
  /\ total_tokens = 0 /\ token_count = 0
  /\ token_history = << >> /\ request_history = << >>
  /\ pc = [t \in Threads |-> "dead"]
  /\ held = [t \in Threads |-> 0]
  /\ outcome = [t \in Threads |-> NoOutcome]
  /\ cpc = "idle"
  /\ progress = NoSnapshot
  /\ now = 0
  /\ requeue_events = 0 /\ admitted = 0
  /\ since_stop = TRUE /\ since_reset = FALSE
  /\ record_log = << >> /\ reset_at = 0
  /\ lock = NoThread /\ rate_limiter_lock = NoThread

LimitedOutcomes == { Success(2), Failure(<<"boom">>) }

NextLimited ==
  \/ StartAfterStop \/ StartFinish
  \/ StopBegin \/ StopReturn
  \/ ProgressLock \/ ProgressRatesLock \/ ProgressReturn
  \/ \E t \in Threads :
       \/ WLoop(t) \/ WGet(t) \/ WGate(t) \/ WLimit(t, MaxRequeue)
       \/ WRequeuePut(t) \/ WRequeueInc(t) \/ WExec(t)
       \/ \E o \in LimitedOutcomes : WTask(t, o, MaxRequeue)
       \/ WRecGate(t) \/ WRecord(t) \/ WExcept(t) \/ WStore(t)
  \/ Tick(RpmWindowSize, RpmWindowSize * MaxTime)

SpecLimited == InitLimited /\ [][NextLimited]_vars

(* ------------- set_rate_limits() while the workers run --------------- *)
\* limited mode, MaxTasks tasks, start(); the caller switches the limiter
\* off and on again at any time; every execution returns 2 tokens
NextSwitch ==
  \/ StartAfterStop \/ StartFinish
  \/ SetRateLimits("unlimited", 0, 0)
  \/ SetRateLimits("limited", 6, 4)
  \/ \E t \in Threads :
       \/ WLoop(t) \/ WGet(t) \/ WGate(t) \/ WLimit(t, MaxRequeue)
       \/ WRequeuePut(t) \/ WRequeueInc(t) \/ WExec(t)
       \/ WTask(t, Success(2), MaxRequeue)
       \/ WRecGate(t) \/ WRecord(t) \/ WExcept(t) \/ WStore(t)
  \/ Tick(RpmWindowSize, RpmWindowSize * MaxTime)

SpecSwitch == InitLimited /\ [][NextSwitch]_vars

(* ------------- the two locks, taken step by step ---------------------- *)
\* limited mode, RunTasks tasks, MaxThreads workers; the caller uses the
\* methods that take a lock, the workers enter their `with` blocks in a
\* step of their own
NextLocks ==
  \/ StartAfterStop \/ StartFinish
  \/ ResetBegin \/ \E n \in 1..MaxThreads : ResetBody(n)
  \/ SetRateLimits("limited", 6, 4)
  \/ ProgressLock \/ ProgressRatesLock \/ ProgressReturn
  \/ RemainingLock \/ RemainingReturn
  \/ \E t \in Threads :
       \/ WLoop(t) \/ WGet(t) \/ WGate(t) \/ WLimit(t, MaxRequeue)
       \/ WRequeuePut(t) \/ WRequeueInc(t) \/ WExec(t)
       \/ WTask(t, Success(2), MaxRequeue)
       \/ WRecGate(t) \/ WRecord(t) \/ WStore(t)
       \/ WTakeLock(t) \/ WTakeLimiterLock(t)
  \/ Tick(RpmWindowSize, RpmWindowSize * MaxTime)

SpecLocks == InitRun /\ [][NextLocks]_vars

(* ============================ properties ============================== *)
\* thread t takes the step
StepBy(t) == pc'[t] # pc[t]
\* tasks dispatched to a worker and not yet recorded or requeued
InFlight == Cardinality({ t \in Threads : held[t] # 0 })

(* C1: in unlimited mode, once the N submitted tasks have been started with
   at least one worker, every task succeeding and every worker scheduled
   fairly, the system reaches and keeps completed_tasks = N,
   error_count = 0 and an empty queue. *)
Started == running /\ cpc = "idle"
Drained ==
  /\ completed_tasks = total_tasks
  /\ error_count = 0
  /\ task_queue = << >>
CexC1 == [](Started => <>[]Drained)

(* C2: with max_rpm = 60 and the 10 s window, the tasks admitted past the
   should_limit gate within one request window never exceed the quota of
   10.  (All admissions between two rollovers fall within 10 seconds.) *)
CexC2 == admitted * 60 <= rate_limiter.max_rpm * RpmWindowSize

(* C3: in the 15-task scenario requeued_tasks is at least 5 once
   completed_tasks equals 15. *)
CexC3 == completed_tasks = 15 => requeued_tasks >= 5

(* C4: a failed execution whose error text lacks the rate-limit signature
   (the empty text included) is stored with error_count + 1,
   completed_tasks + 1 and exactly one outcome of status "error", and the
   task is not put back on the queue. *)
TerminalFailure(t) ==
  /\ outcome[t].error # NoError
  /\ ~(Has429(outcome[t].error) /\ HasRateLimit(outcome[t].error))
CexC4 ==
  [][\A t \in Threads :
       /\ (pc[t] = "except" /\ TerminalFailure(t) /\ StepBy(t))
            => pc'[t] = "store" /\ task_queue' = task_queue
       /\ (pc[t] = "store" /\ TerminalFailure(t) /\ StepBy(t))
            => /\ error_count' = error_count + 1
               /\ completed_tasks' = completed_tasks + 1
               /\ Len(results') = Len(results) + 1
               /\ results'[Len(results')].status = "error"
               /\ SubSeq(results', 1, Len(results)) = results
               /\ task_queue' = task_queue]_vars

(* C5: a failed execution with the upstream rate-limit signature puts the
   task at the tail of the queue and adds one to requeued_tasks; nothing
   is appended to the results log, completed_tasks and error_count keep
   their values. *)
UpstreamLimited(t) ==
  Has429(outcome[t].error) /\ HasRateLimit(outcome[t].error)
NothingRecorded ==
  /\ results' = results
  /\ completed_tasks' = completed_tasks
  /\ error_count' = error_count
ThmC5 ==
  [][\A t \in Threads :
       /\ (pc[t] = "except" /\ UpstreamLimited(t) /\ StepBy(t))
            => /\ task_queue' = Append(task_queue, held[t])
               /\ pc'[t] = "err_inc"
               /\ requeued_tasks' = requeued_tasks
               /\ NothingRecorded
       /\ (pc[t] = "err_inc" /\ StepBy(t))
            => /\ requeued_tasks' = requeued_tasks + 1
               /\ task_queue' = task_queue
               /\ pc'[t] = "loop"
               /\ NothingRecorded]_vars
\* no request was recorded, so the gate never closed: the requeue counted
\* came from an upstream rejection
WitC5 ==
  /\ requeued_tasks >= 1 /\ results = << >>
  /\ rate_limiter.rpm_window_requests = 0 /\ now = 0
  /\ \A t \in Threads : pc[t] = "loop"
  /\ Len(task_queue) = RunTasks

(* C6: when should_limit returns true for a dequeued task, the task is not
   executed in that iteration, completed_tasks, error_count and the results
   log keep their values, and the task is appended at the tail of the
   queue, behind every task waiting there. *)
GateClosed(t) ==
  /\ pc[t] = "limit" /\ rate_limiter.exists
  /\ LimitVerdict(RefreshWindows(rate_limiter, now), None)
ThmC6 ==
  [][\A t \in Threads :
       /\ (GateClosed(t) /\ StepBy(t))
            => /\ pc'[t] = "requeue_put"
               /\ task_queue' = task_queue
               /\ NothingRecorded
       /\ (pc[t] = "requeue_put" /\ StepBy(t))
            => /\ task_queue' = Append(task_queue, held[t])
               /\ pc'[t] = "requeue_inc"
               /\ NothingRecorded
       /\ (pc[t] = "requeue_inc" /\ StepBy(t))
            => /\ pc'[t] = "loop"
               /\ task_queue' = task_queue
               /\ NothingRecorded]_vars
WitC6 ==
  \E t \in Threads :
    /\ pc[t] = "requeue_inc"
    /\ Len(task_queue) >= 2

(* C7: every requeue adds exactly one to requeued_tasks and leaves
   total_tasks alone, so that requeued_tasks equals the number of requeue
   events since the last start() or reset() (a requeue whose increment is
   still to come is counted with the counter). *)
PendingIncrements ==
  Cardinality({ t \in Threads : pc[t] \in {"requeue_inc", "err_inc"} })
CexC7 == requeue_events = requeued_tasks + PendingIncrements

(* C8: whenever the caller is between two calls, total_tasks equals
   completed_tasks plus the tasks dispatched to a worker and not yet
   recorded or requeued plus the queue size. *)
CexC8 ==
  cpc = "idle" => total_tasks = completed_tasks + InFlight + Len(task_queue)

(* C9: a get_progress() made after reset() has returned, before any new
   add_task or start(), reports completed = 0, total = 0, queue_size = 0
   and results = []. *)
CexC9 ==
  (since_reset /\ progress.taken)
    => /\ progress.completed = 0
       /\ progress.total = 0
       /\ progress.queue_size = 0
       /\ progress.results = << >>

(* C10: after stop() has returned and until the next call of the client,
   no outcome is appended to the results log and completed_tasks does not
   change. *)
AfterStop == since_stop /\ cpc = "idle"
CexC10 ==
  [][(AfterStop /\ AfterStop')
       => results' = results /\ completed_tasks' = completed_tasks]_vars

(* C11: start() sets completed_tasks, error_count and requeued_tasks to 0
   and empties the results log, leaves total_tasks and the queue as they
   are, and resets the window counters, the window start times and the
   histories of an existing limiter. *)
\* the two steps of the caller inside start()
StartStep1 == cpc = "idle" /\ cpc' = "start"
StartStep2 == cpc = "start" /\ cpc' = "idle"
LimiterIsReset(l, t) ==
  /\ l.rpm_window_requests = 0 /\ l.tpm_window_tokens = 0
  /\ l.rpm_window_start_time = t /\ l.tpm_window_start_time = t
  /\ l.request_timestamps = << >> /\ l.token_usage = << >>
ThmC11 ==
  [][/\ StartStep1
          => /\ results' = << >>
             /\ total_tasks' = total_tasks
             /\ task_queue' = task_queue
     /\ StartStep2
          => /\ completed_tasks' = 0
             /\ error_count' = 0
             /\ requeued_tasks' = 0
             /\ results' = results
             /\ total_tasks' = total_tasks
             /\ task_queue' = task_queue
             /\ rate_limiter.exists
                  => /\ LimiterIsReset(rate_limiter', now)
                     /\ rate_limiter'.max_rpm = rate_limiter.max_rpm
                     /\ rate_limiter'.max_tpm = rate_limiter.max_tpm]_vars
\* a second start(): a task of the first run has been recorded and counted
\* (total_tokens > 0), the other one is still queued
WitC11 ==
  /\ cpc = "idle" /\ running
  /\ total_tokens > 0
  /\ completed_tasks = 0 /\ results = << >>
  /\ total_tasks = MaxTasks /\ Len(task_queue) = 1
  /\ LimiterIsReset(rate_limiter, now) /\ now > 0
  /\ record_log = << >>

(* C12: no thread holds the state lock and the rate-limiter lock at the
   same time. *)
CexC12 ==
  \A th \in Threads \cup {Client} :
    ~(lock = th /\ rate_limiter_lock = th)

(* C13: a worker that is inside the task function call owns neither the
   state lock nor the rate-limiter lock. *)
ThmC13 ==
  \A t \in Threads :
    pc[t] = "task" => lock # t /\ rate_limiter_lock # t
\* a task is running in limited mode while get_progress() holds the locks
WitC13 ==
  \E t \in Threads :
    /\ pc[t] = "task" /\ LimiterActive
    /\ lock = Client /\ rate_limiter_lock = Client

(* C14: a limiter with max_rpm = 0 and max_tpm = 0 answers should_limit
   with false in every state it can reach, for every token estimate, the
   missing one included. *)
ThmC14 ==
  (rate_limiter.exists /\ rate_limiter.max_rpm = 0 /\ rate_limiter.max_tpm = 0)
    => \A tokens \in Estimates : ~ShouldLimit(rate_limiter, tokens, now)
\* requests and tokens have been recorded in the current windows
WitC14 ==
  /\ rate_limiter.exists
  /\ rate_limiter.max_rpm = 0 /\ rate_limiter.max_tpm = 0
  /\ rate_limiter.rpm_window_requests = MaxRecords
  /\ rate_limiter.tpm_window_tokens >= 4
  /\ ~RpmElapsed(rate_limiter, now) /\ now > reset_at

(* C15: K calls of record_request(tokens=T) made on a freshly reset limiter
   while its token window has not expired leave tpm_window_tokens at K*T;
   once the token window has elapsed, the next should_limit or
   get_current_rates sets tpm_window_tokens to 0. *)
\* every record_request since the reset carried T tokens
AllRecorded(T) == \A i \in 1..Len(record_log) : record_log[i] = T
ThmC15 ==
  rate_limiter.exists =>
    /\ \A T \in TokenChoices \ {None} :
         (now - reset_at < TpmWindowSize /\ AllRecorded(T))
           => rate_limiter.tpm_window_tokens = Len(record_log) * T
    /\ TpmElapsed(rate_limiter, now)
         => /\ \A tokens \in Estimates :
                 AfterShouldLimit(rate_limiter, tokens, now).tpm_window_tokens = 0
            /\ AfterGetCurrentRates(rate_limiter, now).tpm_window_tokens = 0
WitC15 ==
  /\ rate_limiter.exists
  /\ Len(record_log) = MaxRecords /\ AllRecorded(2)
  /\ rate_limiter.tpm_window_tokens = MaxRecords * 2
  /\ now > reset_at /\ now - reset_at < TpmWindowSize

(* C16: a record_request made after a window has elapsed is counted in a
   new window (the window restarts at the time of the call and holds that
   one request), not added to the counter of the expired window. *)
\* the step is a record_request: only it appends to request_timestamps
RecordStep ==
  /\ rate_limiter.exists
  /\ rate_limiter'.request_timestamps =
       Append(rate_limiter.request_timestamps, now)
CexC16 ==
  [][/\ (RecordStep /\ RpmElapsed(rate_limiter, now))
          => /\ rate_limiter'.rpm_window_start_time = now
             /\ rate_limiter'.rpm_window_requests = 1
     /\ (RecordStep /\ TpmElapsed(rate_limiter, now))
          => rate_limiter'.tpm_window_start_time = now]_vars

(* C17: after set_rate_limits('limited', max_rpm, max_tpm), on an existing
   limiter as on a newly constructed one, the limiter holds the new caps,
   both window counters are 0, both windows start at the time of the call
   and both histories are empty. *)
ThmC17 ==
  [][\A r \in RpmCaps, p \in TpmCaps :
       SetRateLimits("limited", r, p)
         => /\ rate_limiter'.exists
            /\ rate_limiter'.max_rpm = r /\ rate_limiter'.max_tpm = p
            /\ LimiterIsReset(rate_limiter', now)]_vars
\* the call was made after time had passed, with both caps set
WitC17 ==
  /\ rate_limit_mode = "limited" /\ rate_limiter.exists
  /\ rate_limiter.max_rpm = 6 /\ rate_limiter.max_tpm = 4
  /\ reset_at = now /\ now >= TpmWindowSize
  /\ LimiterIsReset(rate_limiter, now)

(* C18: should_limit never increases rpm_window_requests or
   tpm_window_tokens; when neither window has elapsed it leaves both
   counters and both window start times as they are, and when a window has
   elapsed all it does to that counter is to set it to 0. *)
ThmC18 ==
  [][(\E tokens \in Estimates : CallShouldLimit(tokens))
       => LET l == rate_limiter
              a == rate_limiter'
          IN /\ a.rpm_window_requests <= l.rpm_window_requests
             /\ a.tpm_window_tokens <= l.tpm_window_tokens
             /\ a.rpm_window_requests =
                  IF RpmElapsed(l, now) THEN 0 ELSE l.rpm_window_requests
             /\ a.tpm_window_tokens =
                  IF TpmElapsed(l, now) THEN 0 ELSE l.tpm_window_tokens
             /\ ~RpmElapsed(l, now)
                  => a.rpm_window_start_time = l.rpm_window_start_time
             /\ ~TpmElapsed(l, now)
                  => a.tpm_window_start_time = l.tpm_window_start_time]_vars
\* the request window has been rolled over, the token window has not, and
\* the tokens recorded in it are still counted
WitC18 ==
  /\ rate_limiter.exists
  /\ rate_limiter.rpm_window_start_time > reset_at
  /\ rate_limiter.rpm_window_requests = 0
  /\ rate_limiter.tpm_window_start_time = reset_at
  /\ rate_limiter.tpm_window_tokens = 4
  /\ Len(record_log) = 2

(* C19: no outcome of a task ends a worker: after the task it dequeued
   has been stored or requeued the worker is back at the head of its loop,
   so no worker thread is ever ended by an exception. *)
CexC19 == \A t \in Threads : pc[t] # "crashed"

(* C20: in every snapshot get_progress() returns, 'completed' equals the
   number of entries of 'results' and 'error_count' the number of entries
   with status 'error'. *)
ErrorEntries(log) ==
  Cardinality({ i \in 1..Len(log) : log[i].status = "error" })
CexC20 ==
  progress.taken
    => /\ progress.completed = Len(progress.results)
       /\ progress.error_count = ErrorEntries(progress.results)

(* C21: within a run every submitted task is in exactly one place: once in
   the queue, or held by exactly one worker, or recorded with one outcome;
   a recorded task is never in the queue again and has one outcome. *)
QueueCopies(task) ==
  Cardinality({ i \in 1..Len(task_queue) : task_queue[i] = task })
Holders(task) == Cardinality({ t \in Threads : held[t] = task })
Outcomes(task) ==
  Cardinality({ i \in 1..Len(results) : results[i].task = task })
ThmC21 ==
  \A task \in 1..RunTasks :
    QueueCopies(task) + Holders(task) + Outcomes(task) = 1
\* after requeues by the gate or by an upstream rejection: a task queued,
\* a task held and a task recorded at the same time
WitC21 ==
  /\ requeued_tasks = MaxRequeue
  /\ task_queue # << >>
  /\ \E t \in Threads : held[t] # 0 /\ pc[t] = "task"
  /\ results # << >>

(* C22: once stop() has cleared the running flag every worker leaves its
   loop, the task it is executing having returned; an idle worker leaves
   after at most one dequeue that times out. *)
AllExited == \A t \in Threads : pc[t] \in Gone
ThmC22 ==
  /\ [](~running => <>AllExited)
  /\ [][\A t \in Threads :
          /\ (~running /\ pc[t] = "loop" /\ StepBy(t)) => pc'[t] = "dead"
          /\ (pc[t] = "get" /\ task_queue = << >> /\ StepBy(t))
               => pc'[t] = "loop"]_vars
\* stop() has returned, the workers are gone, a task is recorded and
\* another one is left in the queue
WitC22 ==
  /\ since_stop /\ ~running /\ cpc = "idle"
  /\ AllExited
  /\ results # << >>
  /\ task_queue # << >>

(* C23: should_limit answers true exactly when the request window has
   reached max_rpm * rpm_window_size / 60 or the token estimate would pass
   the token quota, after the rollover; for a positive max_rpm the number
   of requests recorded in a window when the gate closes is that quota,
   also when the quota is below 1. *)
CexC23 ==
  [][(/\ rate_limiter.exists /\ rate_limiter'.exists
      /\ rate_limiter'.max_rpm > 0
      /\ ~GateShut(rate_limiter, now)
      /\ GateShut(rate_limiter', now'))
       => rate_limiter'.rpm_window_requests * 60
            = rate_limiter'.max_rpm * RpmWindowSize]_vars

(* C24: in limited mode with max_rpm = 0 and max_tpm > 0 the admission
   gate of the worker sends no task back to the queue, whatever
   tpm_window_tokens has reached: every worker that asks should_limit goes
   on to execute its task. *)
ThmC24 == \A t \in Threads : pc[t] # "requeue_put"
\* all tasks were admitted and recorded 6 tokens each in one token window,
\* whose quota is 4
WitC24 ==
  /\ completed_tasks = RunTasks
  /\ rate_limiter.max_rpm = 0 /\ rate_limiter.max_tpm = 4
  /\ rate_limiter.tpm_window_tokens = 6 * RunTasks
  /\ ~TpmElapsed(rate_limiter, now)

(* C25: a failed execution is put back as an upstream rate-limit rejection
   exactly when its error text contains "429" and contains "rate limit" in
   any letter case; a text with only one of the two markers is stored as a
   terminal error. *)
Words(error) == { error[i] : i \in 1..Len(error) }
BothMarkers(error) ==
  /\ "429" \in Words(error)
  /\ Words(error) \cap {"rate limit", "Rate Limit", "RATE LIMIT"} # {}
OneMarker(error) ==
  /\ ~BothMarkers(error)
  /\ Words(error) \cap {"429", "rate limit", "Rate Limit", "RATE LIMIT"} # {}
ThmC25 ==
  [][\A t \in Threads :
       /\ (pc[t] = "except" /\ StepBy(t))
            => /\ pc'[t] = "err_inc" <=> BothMarkers(outcome[t].error)
               /\ pc'[t] = "store" <=> ~BothMarkers(outcome[t].error)
               /\ BothMarkers(outcome[t].error)
                    => task_queue' = Append(task_queue, held[t])
               /\ ~BothMarkers(outcome[t].error) => task_queue' = task_queue
       /\ (pc[t] = "store" /\ OneMarker(outcome[t].error) /\ StepBy(t))
            => /\ Len(results') = Len(results) + 1
               /\ results'[Len(results')].task = held[t]
               /\ results'[Len(results')].status = "error"
               /\ error_count' = error_count + 1
               /\ task_queue' = task_queue]_vars
\* a text with "429" alone was stored as an error, a mixed-case rejection
\* was put back, and a text with "Rate Limit" alone is about to be stored
WitC25 ==
  /\ \E i \in 1..Len(results) :
       results[i].error = <<"429">> /\ results[i].status = "error"
  /\ requeue_events > 0
  /\ \A t \in Threads : pc[t] # "requeue_put"
  /\ rate_limiter.rpm_window_requests = 0
  /\ \E t \in Threads :
       pc[t] = "store" /\ outcome[t].error = <<"Rate Limit">>

(* C26: in limited mode with max_rpm > 0, every execution succeeding, time
   advancing and the workers scheduled fairly, every submitted task is
   eventually executed and recorded as completed, and the queue becomes
   empty. *)
RecordedOk(task) ==
  \E i \in 1..Len(results) :
    results[i].task = task /\ results[i].status = "success"
AllRecorded26 ==
  /\ task_queue = << >>
  /\ completed_tasks = total_tasks
  /\ \A task \in 1..RunTasks : RecordedOk(task)
CexC26 == [](Started => <>AllRecorded26)

(* C27: the threads running the worker loop never outnumber num_executors
   of the most recent start(); a worker that was still executing a task
   when stop() gave up waiting does not dequeue again after a later start()
   has set the running flag. *)
Dequeuing == { t \in Threads : pc[t] = "get" }
CexC27 ==
  /\ Dequeuing \subseteq executors
  /\ Cardinality(Dequeuing) <= num_executors

(* C28: set_rate_limits('unlimited') called while workers run loses no
   task and ends no worker: also when the limiter goes away between the
   mode check of a worker and its should_limit or record_request call, the
   task dequeued is requeued or recorded, and a task whose execution
   succeeded is recorded with status 'success'. *)
CexC28 ==
  /\ \A t \in Threads : pc[t] # "crashed"
  /\ \A i \in 1..Len(results) :
       results[i].returned => results[i].status = "success"

(* C29: no deadlock on the two locks: whatever the interleaving of worker
   steps, get_progress, start, reset, set_rate_limits and remaining_tasks,
   no state is reached in which threads wait for the state lock and the
   rate-limiter lock in a cycle, one owning the state lock and waiting for
   the limiter lock, another owning the limiter lock and waiting for the
   state lock. *)
Procs == Threads \cup {Client}
WantsLock(p) ==
  IF p = Client THEN cpc = "add_task"
  ELSE pc[p] \in LockLabels /\ lock # p
WantsLimiterLock(p) ==
  IF p = Client
    THEN \/ cpc = "progress_locked"
         \/ cpc \in {"start", "reset_join"} /\ rate_limiter.exists
    ELSE pc[p] \in LimiterLockLabels /\ rate_limiter_lock # p
ThmC29 ==
  \A p, q \in Procs :
    ~(/\ lock = p /\ WantsLimiterLock(p)
      /\ rate_limiter_lock = q /\ WantsLock(q))
\* get_progress() owns the state lock and waits for the limiter lock, which
\* a worker owns, while another worker waits for the state lock
WitC29 ==
  /\ lock = Client /\ cpc = "progress_locked"
  /\ \E t, u \in Threads :
       /\ t # u
       /\ rate_limiter_lock = t /\ pc[t] \in LimiterLockLabels
       /\ WantsLock(u)

(* C30: with tasks that always succeed and W workers in limited mode with
   the request quota Q = max_rpm * rpm_window_size / 60 >= 1, the tasks
   admitted between two consecutive rollovers of the request window never
   exceed Q + W - 1. *)
CexC30 ==
  (rate_limiter.exists /\ rate_limiter.max_rpm * RpmWindowSize >= 60)
    => admitted * 60
         <= rate_limiter.max_rpm * RpmWindowSize + (num_executors - 1) * 60

(* C31: once stop() has cleared the running flag, and as long as start()
   does not set it again, no worker comes to the dequeue again: a worker
   that had passed the test of the flag may still take one task, and every
   dequeue leads away from the dequeue, so each worker takes at most one
   further task. *)
ThmC31 ==
  [][\A t \in Threads :
       /\ (~running /\ ~running' /\ pc'[t] = "get") => pc[t] = "get"
       /\ (pc[t] = "get" /\ StepBy(t))
            => /\ pc'[t] \in {"gate", "loop"}
               /\ pc'[t] = "gate" <=> task_queue # << >>]_vars
\* stop() is waiting for a worker that has recorded a task, had passed the
\* test of the flag and is about to take another task
WitC31 ==
  /\ ~running /\ cpc = "stop_join"
  /\ results # << >>
  /\ task_queue # << >>
  /\ \E t \in Threads : pc[t] = "get"

(* C32: in every snapshot of get_progress() total_tokens is the sum of the
   token counts of the outcomes with status 'success' in results, also
   after stop(), start() and further processing. *)
RECURSIVE SuccessTokens(_)
SuccessTokens(log) ==
  IF log = << >> THEN 0
  ELSE (IF Head(log).status = "success" /\ Head(log).returned
           /\ Head(log).tokens # None
          THEN Head(log).tokens ELSE 0)
       + SuccessTokens(Tail(log))
CexC32 ==
  progress.taken => progress.total_tokens = SuccessTokens(progress.results)

(* C33: get_progress() returns a snapshot in every reachable state and
   never raises; the TPM computation does not divide by zero when the
   oldest token-history entry kept carries the current time. *)
CexC33 == cpc = "idle" => ~progress.raised
=============================================================================
